---------------------------- MODULE Spec2Model ----------------------------
(***************************************************************************)
(* A model of the presence-and-relay server of mdigger/locator:            *)
(* src/server.go (the per-connection handler Server.servConn and Send) and *)
(* src/conninfo.go (the registry List and its records ConnInfo).           *)
(*                                                                         *)
(* Text and binary data are sequences of byte values (0..255), so that the *)
(* framing (ReadString, TrimSpace, SplitN, ToUpper, binary.Read, CopyN) is *)
(* computed as the code computes it.  A handler is cut into steps at every *)
(* access to shared state: a registry operation (atomic under List.mu) or  *)
(* an operation on a socket.                                               *)
(***************************************************************************)
EXTENDS Integers, Sequences, FiniteSets, TLC

(***************************************************************************)
(* Bounds of the model.                                                    *)
(***************************************************************************)
\* the segments the clients send in all, without and with relays; the minutes
\* that pass
MaxSend == 4
MaxRelaySend == 3
MaxClock == 2
\* the temporary accept errors in a row that are followed
MaxErrs == 9

(***************************************************************************)
(* Program constants.                                                      *)
(***************************************************************************)
\* var timeout = 2 * time.Minute; one clock tick is one minute
Timeout == 2
\* if len(message) > 256
MaxLine == 256

Sess == {"s1", "s2", "s3"}

\* "CONNECT", "DISCONNECT", "STATUS", "INFO", "PING", "OK", "ERROR", "TO"
CONNECT == <<67,79,78,78,69,67,84>>
DISCONNECT == <<68,73,83,67,79,78,78,69,67,84>>
STATUS == <<83,84,65,84,85,83>>
INFO == <<73,78,70,79>>
PING == <<80,73,78,71>>
OK == <<79,75>>
ERROR == <<69,82,82,79,82>>
TO == <<84,79>>
\* "FROM"
FROM == <<70,82,79,77>>
\* "empty id", "not connected", "not found", "empty TO", "0.0.0.0:0"
EmptyId == <<101,109,112,116,121,32,105,100>>
NotConnected == <<110,111,116,32,99,111,110,110,101,99,116,101,100>>
NotFound == <<110,111,116,32,102,111,117,110,100>>
EmptyTo == <<101,109,112,116,121,32,84,79>>
DefaultAddr2 == <<48,46,48,46,48,46,48,58,48>>
\* err.Error(): the text of an I/O error, "err"
ErrText == <<101,114,114>>
ReadErrText == <<69,79,70>>
LF == 10
SP == 32

(***************************************************************************)
(* Strings (package strings) on byte sequences.                            *)
(***************************************************************************)
\* unicode.IsSpace on the one-byte runes
IsSpace(c) == c \in {9, 10, 11, 12, 13, 32}

RECURSIVE TrimLeft(_)
TrimLeft(s) ==
    IF s # <<>> /\ IsSpace(Head(s)) THEN TrimLeft(Tail(s)) ELSE s

RECURSIVE TrimRight(_)
TrimRight(s) ==
    IF s # <<>> /\ IsSpace(s[Len(s)]) THEN TrimRight(SubSeq(s, 1, Len(s) - 1)) ELSE s

TrimSpace(s) == TrimRight(TrimLeft(s))

\* strings.IndexRune / IndexByte: 0-based index of the first c in s, or -1
IndexByte(s, c) ==
    IF \E i \in 1..Len(s) : s[i] = c
    THEN (CHOOSE i \in 1..Len(s) : s[i] = c /\ \A j \in 1..(i - 1) : s[j] # c) - 1
    ELSE -1

\* Go slices s[:i] and s[i:]
SliceTo(s, i) == SubSeq(s, 1, i)
SliceFrom(s, i) == SubSeq(s, i + 1, Len(s))

\* strings.SplitN(s, " ", 2)
SplitN2(s) ==
    LET i == IndexByte(s, SP)
    IN  IF i < 0 THEN <<s>> ELSE <<SliceTo(s, i), SliceFrom(s, i + 1)>>

ToUpper(s) == [i \in 1..Len(s) |-> IF s[i] >= 97 /\ s[i] <= 122 THEN s[i] - 32 ELSE s[i]]

\* strings.Join(params, " ")
RECURSIVE Join(_)
Join(ps) ==
    IF ps = <<>> THEN <<>>
    ELSE IF Len(ps) = 1 THEN ps[1]
    ELSE ps[1] \o <<SP>> \o Join(Tail(ps))

\* the message Send writes: strings.Join(params, " ") + "\n"
Msg(ps) == Join(ps) \o <<LF>>

\* the command and the parameter of a received line (server.go 154-163)
CmdOf(message) == ToUpper(SplitN2(TrimSpace(message))[1])
ParamOf(message) ==
    LET splits == SplitN2(TrimSpace(message))
    IN  IF Len(splits) > 1 THEN TrimSpace(splits[2]) ELSE <<>>

\* decimal digits of a natural number
RECURSIVE Digits(_)
Digits(n) == IF n < 10 THEN <<48 + n>> ELSE Digits(n \div 10) \o <<48 + (n % 10)>>

\* updated.UTC().Format(time.RFC3339), for the minute n of the model's clock:
\* "T" and the minute
Format(n) == <<84>> \o Digits(n)

\* conn.RemoteAddr().String() of a session's socket: "p1", "p2", "p3"
RemoteAddr(s) ==
    CASE s = "s1" -> <<112,49>>
      [] s = "s2" -> <<112,50>>
      [] OTHER -> <<112,51>>

(***************************************************************************)
(* ConnInfo and List (conninfo.go).  A record is a heap object: ser is its *)
(* identity, so that a *ConnInfo held by a handler (info, to) keeps naming *)
(* the same object when the map is changed.                                *)
(***************************************************************************)
NilInfo ==
    [id |-> <<>>, addr |-> <<>>, addr2 |-> <<>>, updated |-> 0,
     status |-> <<>>, conn |-> "nil", ser |-> 0]

VARIABLES
    connections,   \* List.connections: id -> ConnInfo
    closed,        \* the sockets on which Close has been called
    gone,          \* the sockets whose peer has closed its end
    clock,         \* time.Now(), in minutes
    pc,            \* the place of each handler in servConn
    id,            \* servConn's id
    reader,        \* the bytes buffered in servConn's bufio.Reader
    deadline,      \* the read deadline of each socket
    message,       \* servConn's message, as ReadString returned it
    to,            \* servConn's info (INFO) or to (TO): a *ConnInfo
    length,        \* servConn's length (TO)
    remain,        \* the bytes io.CopyN has still to copy
    reply,         \* the reply about to be sent and what follows it
    out,           \* every message written to each socket, in order
    adds,          \* history: for each id, the sockets List.Add installed, in order
    sent,          \* the number of segments the clients have sent
    scen,          \* the clients' repertoire
    now,           \* the time.Now() a handler inside ConnInfo.Update has read
    stream,        \* history: the bytes the client has sent that the handler had
                   \* not read when it began its present command, in order
    relayed,       \* history: where in stream the frame of the handler's present
                   \* TO begins, and the bytes the handler has written to the target
    tempDelay,     \* Serve's tempDelay, in milliseconds
    l,             \* Serve's listener: "open" or "closed"
    serving,       \* whether Serve is in its loop ("accept") or has returned
    errs,          \* history: the temporary accept errors since the last accept
    slept          \* history: the duration of Serve's last time.Sleep, in milliseconds

\* the state of Server.Serve
serveVars == <<tempDelay, l, serving, errs, slept>>

vars ==
    <<connections, closed, gone, clock, pc, id, reader, deadline, message, to,
      length, remain, reply, out, adds, sent, scen, now, stream, relayed, serveVars>>

NoReply == [msg |-> <<>>, then |-> ""]
NoRelay == [at |-> 0, wrote |-> <<>>]

Put(f, k, v) == [x \in (DOMAIN f) \cup {k} |-> IF x = k THEN v ELSE f[x]]
Del(f, k) == [x \in (DOMAIN f) \ {k} |-> f[x]]

\* an identity no object in use has
NewSer ==
    LET used == {connections[x].ser : x \in DOMAIN connections} \cup {to[t].ser : t \in Sess}
    IN  CHOOSE n \in 1..(Cardinality(used) + 1) : n \notin used

\* NewConnInfo (conninfo.go 22-34)
NewConnInfo(conn, i, addr, addr2) ==
    [id |-> i, addr |-> addr,
     addr2 |-> IF addr2 = <<>> THEN DefaultAddr2 ELSE addr2,
     updated |-> clock, status |-> <<>>, conn |-> conn, ser |-> NewSer]

\* ConnInfo.String (conninfo.go 45-47)
String(ci) == Join(<<ci.addr, ci.addr2, Format(ci.updated), ci.status>>)

\* a handler is inside List.SetStatus or List.Update, holding mu.RLock
RLocked == \E t \in Sess : pc[t] \in {"update", "setStatus", "statusNow"}

\* a handler is inside List.Add, holding mu.Lock
Locked == \E t \in Sess : pc[t] = "add"

\* List.Add without info.Close(): the socket of the replaced record stays open
ListAddNoClose(i) ==
    /\ ~RLocked /\ ~Locked
    /\ closed' = closed

\* List.Add (conninfo.go 75-78): mu.Lock, and info.Close() on the record that
\* is under id
ListAddClose(i) ==
    /\ ~RLocked /\ ~Locked
    /\ closed' = IF i \in DOMAIN connections
                 THEN closed \cup ({connections[i].conn} \ {"nil"})
                 ELSE closed

\* List.Add (conninfo.go 79-80): the new record is put under id, mu.Unlock
ListAddInstall(conn, i, addr, addr2) ==
    connections' = Put(connections, i, NewConnInfo(conn, i, addr, addr2))

\* List.Remove without info.Close(): the record is deleted, its socket stays open
ListRemoveNoClose(i) ==
    /\ ~RLocked /\ ~Locked
    /\ closed' = closed
    /\ connections' = Del(connections, i)

\* List.Remove (conninfo.go 103-110), under mu.Lock
ListRemove(i) ==
    /\ ~RLocked /\ ~Locked
    /\ closed' = IF i \in DOMAIN connections
                 THEN closed \cup ({connections[i].conn} \ {"nil"})
                 ELSE closed
    /\ connections' = Del(connections, i)

\* a write to the object ci, seen through the map and through every pointer to it
Store(ci, new) ==
    /\ connections' = [x \in DOMAIN connections |->
                          IF connections[x].ser = ci.ser THEN new ELSE connections[x]]
    /\ to' = [t \in Sess |-> IF to[t].ser = ci.ser THEN new ELSE to[t]]

\* List.Info (conninfo.go 113-118): the *ConnInfo of id, nil when absent; it
\* is called when no handler holds mu.Lock
ListInfo(i) == IF i \in DOMAIN connections THEN connections[i] ELSE NilInfo

(***************************************************************************)
(* Sockets.                                                                *)
(***************************************************************************)
\* the outcomes a write to socket c can have: it fails once Close was called
\* on c, and may fail once the peer is gone
WriteOutcomes(c) == {ok \in BOOLEAN : IF ok THEN c \notin closed ELSE c \in closed \cup gone}

\* a blocked read that no deadline ends: it fails only when the socket is
\* closed or the peer has closed its end
ReadFailsNoDeadline(c) == c \in closed \cup gone

\* a blocked read of socket c fails: the socket is closed, the peer has closed
\* its end, or the read deadline has passed
ReadFails(c) == c \in closed \cup gone \/ clock >= deadline[c]

Written(c, bytes) == [out EXCEPT ![c] = Append(@, bytes)]

\* binary.Read(reader, binary.LittleEndian, &length): int32 of 4 bytes
Int32LE(b) ==
    b[1] + 256 * b[2] + 65536 * b[3]
      + 16777216 * (IF b[4] >= 128 THEN b[4] - 256 ELSE b[4])

\* binary.Write(conn, binary.LittleEndian, length): the 4 bytes of an int32
PutInt32LE(n) ==
    LET low == n % 16777216
    IN  <<low % 256, (low \div 256) % 256, low \div 65536,
          ((n - low) \div 16777216) % 256>>

\* length - 4 in int32 arithmetic
MinInt32 == -2147483647 - 1
MaxInt32 == 2147483647
Sub4(n) == IF n >= MinInt32 + 4 THEN n - 4 ELSE MaxInt32 - ((MinInt32 + 3) - n)

(***************************************************************************)
(* The clients.                                                            *)
(***************************************************************************)
\* "CONNECT a\n", "CONNECT b\n", "STATUS s\n", "STATUS t\n", "INFO a\n",
\* "PING x\n", "FOO bar\n", "DISCONNECT\n"
LnConnectA == <<67,79,78,78,69,67,84,32,97,10>>
LnConnectB == <<67,79,78,78,69,67,84,32,98,10>>
LnStatusS == <<83,84,65,84,85,83,32,115,10>>
LnStatusT == <<83,84,65,84,85,83,32,116,10>>
LnInfoA == <<73,78,70,79,32,97,10>>
LnPingX == <<80,73,78,71,32,120,10>>
\* "ping x\n"
LnPingLower == <<112,105,110,103,32,120,10>>
LnFooBar == <<70,79,79,32,98,97,114,10>>
LnDisconnect == <<68,73,83,67,79,78,78,69,67,84,10>>
\* a line of MaxLine + 1 bytes, its LF counted
LnLong == [i \in 1..(MaxLine + 1) |-> IF i = MaxLine + 1 THEN LF ELSE 120]
\* "PING xx...x\n", a line of MaxLine bytes, its LF counted
LnPingMax ==
    [i \in 1..MaxLine |->
        IF i = MaxLine THEN LF ELSE IF i <= 5 THEN <<80,73,78,71,32>>[i] ELSE 120]

\* "CONNECT ab 9\n", "CONNECT a 9\n", "CONNECT ab\n"
LnConnectAB9 == <<67,79,78,78,69,67,84,32,97,98,32,57,10>>
LnConnectA9 == <<67,79,78,78,69,67,84,32,97,32,57,10>>
LnConnectAB == <<67,79,78,78,69,67,84,32,97,98,10>>

\* "CONNECT\n", "TO b\n", "TO\n"
LnConnect == <<67,79,78,78,69,67,84,10>>
LnToB == <<84,79,32,98,10>>
LnTo == <<84,79,10>>
\* the frames that follow a TO line: the length L, its 4 bytes counted, and
\* L - 4 bytes of body; L = 6, L = 4, L = 3, and a frame of L = 6 cut short
Frame6 == <<6,0,0,0,1,2>>
Frame4 == <<4,0,0,0>>
Frame3 == <<3,0,0,0>>
Frame6Head == <<6,0,0,0,1>>
\* a frame whose length prefix is FC FF FF FF, with two bytes of body
FrameFC == <<252,255,255,255,1,2>>
\* a frame whose length prefix is 00 00 00 80, the least int32, with two bytes
\* of body
FrameMin == <<0,0,0,128,1,2>>

\* the segments a client may send, by repertoire
Input(s) ==
    CASE scen = "reg" ->
           IF s = "s1" THEN {LnConnectA, LnStatusS, LnInfoA, LnLong}
           ELSE IF s = "s2"
           THEN {LnConnectA \o LnStatusT, LnFooBar \o LnPingX, LnPingLower, LnDisconnect}
           ELSE {}
      [] scen = "relay" ->
           IF s = "s1"
           THEN {LnConnectA, LnToB \o Frame6, LnToB \o Frame4, LnToB \o Frame3,
                 LnToB \o FrameFC, LnToB, Frame6Head, LnTo}
           ELSE IF s = "s2" THEN {LnConnectB, LnConnect}
           ELSE {}
      [] scen = "user" ->
           IF s = "s1" THEN {LnConnect, LnStatusS, LnTo, LnConnectA}
           ELSE IF s = "s2" THEN {LnConnectA, LnStatusT, LnDisconnect}
           ELSE {}
      [] scen = "race" ->
           IF s = "s1" THEN {LnConnectA, LnStatusS}
           ELSE IF s = "s2" THEN {LnConnectA \o LnStatusT}
           ELSE {}
      [] scen = "addr" ->
           IF s = "s1" THEN {LnConnectAB9, LnConnectA9, LnConnectAB}
           ELSE IF s = "s2" THEN {LnConnectA}
           ELSE {}
      [] scen = "cap" ->
           IF s = "s1" THEN {LnPingMax, LnLong, LnPingX}
           ELSE IF s = "s2" THEN {LnConnectA, LnPingMax, LnLong}
           ELSE {}
      [] scen = "wrap" ->
           IF s = "s1" THEN {LnToB \o FrameMin, LnToB \o Frame3, LnToB \o Frame6}
           ELSE IF s = "s2" THEN {LnConnectB}
           ELSE {}
      [] scen = "idle" ->
           IF s = "s1" THEN {LnConnectA}
           ELSE IF s = "s2" THEN {LnConnectA, LnInfoA}
           ELSE {}
      [] OTHER -> {}

(***************************************************************************)
(* servConn (server.go 122-320).                                           *)
(***************************************************************************)
cmd(s) == CmdOf(message[s])
param(s) == ParamOf(message[s])

\* the handler moves to place p; its locals are dead at the top of the loop
\* and in the deferred function
Goto(s, p) ==
    /\ pc' = [pc EXCEPT ![s] = p]
    /\ IF p \in {"top", "defer"}
       THEN /\ message' = [message EXCEPT ![s] = <<>>]
            /\ length' = [length EXCEPT ![s] = 0]
            /\ remain' = [remain EXCEPT ![s] = 0]
            /\ reply' = [reply EXCEPT ![s] = NoReply]
       ELSE UNCHANGED <<message, length, remain, reply>>

\* as Goto, for a step that holds a *ConnInfo
GotoDrop(s, p) ==
    /\ Goto(s, p)
    /\ to' = [to EXCEPT ![s] = IF p \in {"top", "defer", "reply"} THEN NilInfo ELSE @]

\* Send(addr, conn, ...) to the handler's own socket and what the code does
\* next: "loop" (the next command), "exit" (return), "reset" (reader.Reset,
\* continue), "evict" (reader.Reset, connections.Remove(param), continue);
\* a failed Send returns
SendOwn(s, bytes, then) ==
    \E ok \in WriteOutcomes(s) :
        /\ out' = IF ok THEN Written(s, bytes) ELSE out
        /\ reader' = [reader EXCEPT ![s] =
                         IF ok /\ then \in {"reset", "evict"} THEN <<>> ELSE @]
        /\ GotoDrop(s, IF ~ok \/ then = "exit" THEN "defer"
                       ELSE IF then = "evict" THEN "evictTo" ELSE "top")

\* the reply to send in the handler's next step, and what follows it
ReplyNext(s, bytes, then) ==
    /\ pc' = [pc EXCEPT ![s] = "reply"]
    /\ reply' = [reply EXCEPT ![s] = [msg |-> bytes, then |-> then]]

\* conn.SetReadDeadline(time.Now().Add(timeout)) (server.go 139-142)
SetReadDeadline(s) ==
    /\ pc[s] = "top"
    /\ IF s \in closed
       THEN /\ Goto(s, "defer")
            /\ UNCHANGED deadline
       ELSE /\ Goto(s, "read")
            /\ deadline' = [deadline EXCEPT ![s] = clock + Timeout]
    /\ stream' = [stream EXCEPT ![s] = reader[s]]
    /\ relayed' = [relayed EXCEPT ![s] = NoRelay]
    /\ UNCHANGED <<connections, closed, gone, clock, id, reader, to, out, adds, sent, scen, serveVars, now>>

\* the handler is blocked in a read of its socket: the bufio.Reader holds
\* less than the read needs
Blocked(s) ==
    \/ pc[s] = "read" /\ LF \notin {reader[s][i] : i \in 1..Len(reader[s])}
    \/ pc[s] = "len" /\ Len(reader[s]) < 4
    \/ pc[s] = "copy" /\ remain[s] > 0 /\ reader[s] = <<>>

\* a segment of the client arrives at a blocked read and is buffered
Recv(s) ==
    /\ Blocked(s)
    /\ s \notin closed \cup gone
    /\ clock < deadline[s]
    /\ sent < (IF scen = "relay" THEN MaxRelaySend ELSE MaxSend)
    /\ \E seg \in Input(s) : reader' = [reader EXCEPT ![s] = @ \o seg]
    /\ stream' = [stream EXCEPT ![s] = @ \o SliceFrom(reader'[s], Len(reader[s]))]
    /\ sent' = sent + 1
    /\ UNCHANGED <<connections, closed, gone, clock, pc, id, deadline, message, to,
                   length, remain, reply, out, adds, scen, serveVars, now, relayed>>

\* the client closes its end, instead of sending a next segment
PeerClose(s) ==
    /\ Blocked(s)
    /\ s \notin closed \cup gone
    /\ gone' = gone \cup {s}
    /\ UNCHANGED <<connections, closed, clock, pc, id, reader, deadline, message, to,
                   length, remain, reply, out, adds, sent, scen, serveVars, now, stream, relayed>>

\* the client sends a segment and closes its end at once: the handler finds
\* the segment buffered and the peer gone
RecvLast(s) ==
    /\ Blocked(s)
    /\ s \notin closed \cup gone
    /\ clock < deadline[s]
    /\ sent < (IF scen = "relay" THEN MaxRelaySend ELSE MaxSend)
    /\ \E seg \in Input(s) : reader' = [reader EXCEPT ![s] = @ \o seg]
    /\ stream' = [stream EXCEPT ![s] = @ \o SliceFrom(reader'[s], Len(reader[s]))]
    /\ gone' = gone \cup {s}
    /\ sent' = sent + 1
    /\ UNCHANGED <<connections, closed, clock, pc, id, deadline, message, to,
                   length, remain, reply, out, adds, scen, serveVars, now, relayed>>

\* a minute passes; the steps a handler takes between two reads of its socket
\* take less (every write has a deadline of 5 or 30 seconds)
Tick ==
    /\ clock < MaxClock
    /\ \A s \in Sess : Blocked(s) \/ pc[s] = "done"
    /\ clock' = clock + 1
    /\ UNCHANGED <<connections, closed, gone, pc, id, reader, deadline, message, to,
                   length, remain, reply, out, adds, sent, scen, serveVars, now, stream, relayed>>

\* the clock moves on while a handler is inside ConnInfo.Update, between its
\* call of time.Now() and its store of the result (conninfo.go 57)
TickInUpdate ==
    /\ clock < MaxClock
    /\ \E s \in Sess : pc[s] \in {"update", "statusNow"}
    /\ \A s \in Sess : Blocked(s) \/ pc[s] \in {"done", "update", "statusNow"}
    /\ clock' = clock + 1
    /\ UNCHANGED <<connections, closed, gone, pc, id, reader, deadline, message, to,
                   length, remain, reply, out, adds, sent, scen, serveVars, now, stream, relayed>>

\* reader.ReadString('\n') returns a line (server.go 143)
ReadString(s) ==
    /\ pc[s] = "read"
    /\ ~Blocked(s)
    /\ LET n == IndexByte(reader[s], LF) + 1
       IN  /\ message' = [message EXCEPT ![s] = SliceTo(reader[s], n)]
           /\ reader' = [reader EXCEPT ![s] = SliceFrom(@, n)]
    /\ pc' = [pc EXCEPT ![s] = "touch"]
    /\ UNCHANGED <<connections, closed, gone, clock, id, deadline, to, length, remain,
                   reply, out, adds, sent, scen, serveVars, now, stream, relayed>>

\* reader.ReadString('\n') returns an error (server.go 143-147)
ReadError(s) ==
    /\ pc[s] = "read"
    /\ Blocked(s)
    /\ ReadFails(s)
    /\ Goto(s, "defer")
    /\ UNCHANGED <<connections, closed, gone, clock, id, reader, deadline, to, out, adds,
                   sent, scen, serveVars, now, stream, relayed>>

\* a line that is too long at MaxLine bytes already
TooLongAtMaxLine(m) == Len(m) >= MaxLine

\* len(message) > 256 (server.go 151)
TooLong(m) == Len(m) > MaxLine

\* the check of the line's length made before connections.Update(id): a long
\* line does not update the record
TouchAfterCheck(s) ==
    /\ pc[s] = "touch"
    /\ id[s] # <<>> => ~Locked
    /\ IF Len(message[s]) <= MaxLine /\ id[s] # <<>> /\ id[s] \in DOMAIN connections
       THEN /\ now' = [now EXCEPT ![s] = clock]
            /\ pc' = [pc EXCEPT ![s] = "update"]
            /\ UNCHANGED <<message, length, remain, reply>>
       ELSE /\ Goto(s, IF TooLong(message[s]) THEN "top" ELSE "dispatch")
            /\ UNCHANGED now
    /\ UNCHANGED <<connections, to, closed, gone, clock, id, reader, deadline, out, adds,
                   sent, scen, serveVars, stream, relayed>>

\* connections.Update(id) called only for a line whose verb is a command
TouchKnownVerb(s) ==
    /\ pc[s] = "touch"
    /\ id[s] # <<>> => ~Locked
    /\ IF /\ id[s] # <<>> /\ id[s] \in DOMAIN connections
          /\ CmdOf(message[s]) \in {CONNECT, STATUS, INFO, PING, DISCONNECT, TO}
       THEN /\ now' = [now EXCEPT ![s] = clock]
            /\ pc' = [pc EXCEPT ![s] = "update"]
            /\ UNCHANGED <<message, length, remain, reply>>
       ELSE /\ Goto(s, IF TooLong(message[s]) THEN "top" ELSE "dispatch")
            /\ UNCHANGED now
    /\ UNCHANGED <<connections, to, closed, gone, clock, id, reader, deadline, out, adds,
                   sent, scen, serveVars, stream, relayed>>

\* connections.Update(id): under mu.RLock the record of id is looked up and
\* ConnInfo.Update reads time.Now() (server.go 148-150, conninfo.go 94-97, 57)
Touch(s) ==
    /\ pc[s] = "touch"
    /\ id[s] # <<>> => ~Locked
    /\ IF id[s] # <<>> /\ id[s] \in DOMAIN connections
       THEN /\ now' = [now EXCEPT ![s] = clock]
            /\ pc' = [pc EXCEPT ![s] = "update"]
            /\ UNCHANGED <<message, length, remain, reply>>
       ELSE /\ Goto(s, IF TooLong(message[s]) THEN "top" ELSE "dispatch")
            /\ UNCHANGED now
    /\ UNCHANGED <<connections, to, closed, gone, clock, id, reader, deadline, out, adds,
                   sent, scen, serveVars, stream, relayed>>

\* ConnInfo.Update stores the time it read, List.Update releases mu.RLock, and
\* the line's length is checked (conninfo.go 57, 99; server.go 151-153)
Update(s) ==
    /\ pc[s] = "update"
    /\ LET ci == connections[id[s]]
       IN  Store(ci, [ci EXCEPT !.updated = now[s]])
    /\ now' = [now EXCEPT ![s] = 0]
    /\ Goto(s, IF TooLong(message[s]) THEN "top" ELSE "dispatch")
    /\ UNCHANGED <<closed, gone, clock, id, reader, deadline, out, adds, sent,
                   scen, serveVars, stream, relayed>>

\* the id and the addr2 of a CONNECT parameter (server.go 168-176)
ConnectId(p) ==
    LET idx == IndexByte(p, SP) IN IF idx > 1 THEN SliceTo(p, idx) ELSE p
ConnectAddr2(p) ==
    LET idx == IndexByte(p, SP) IN IF idx > 1 THEN SliceFrom(p, idx) ELSE <<>>

\* case CONNECT with a parameter: connections.Add takes mu.Lock and closes the
\* socket of the record under the id (server.go 166-177, conninfo.go 75-78)
Connect(s) ==
    /\ pc[s] = "dispatch"
    /\ cmd(s) = CONNECT
    /\ param(s) # <<>>
    /\ ListAddClose(ConnectId(param(s)))
    /\ pc' = [pc EXCEPT ![s] = "add"]
    /\ UNCHANGED <<connections, gone, clock, id, reader, deadline, message, to, length,
                   remain, reply, out, adds, sent, scen, serveVars, now, stream, relayed>>

\* connections.Add puts the new record under the id and releases mu.Lock; the
\* handler is identified by the id (server.go 170-177, conninfo.go 79-80)
ConnectAdd(s) ==
    /\ pc[s] = "add"
    /\ LET i == ConnectId(param(s))
       IN  /\ id' = [id EXCEPT ![s] = i]
           /\ ListAddInstall(s, i, RemoteAddr(s), ConnectAddr2(param(s)))
           /\ adds' = Put(adds, i, IF i \in DOMAIN adds THEN Append(adds[i], s) ELSE <<s>>)
           /\ ReplyNext(s, Msg(<<OK, cmd(s), i, RemoteAddr(s)>>), "loop")
    /\ UNCHANGED <<closed, gone, clock, reader, deadline, message, to, length, remain, out,
                   sent, scen, serveVars, now, stream, relayed>>

\* case CONNECT without a parameter, returning after the ERROR reply
ConnectEmptyExits(s) ==
    /\ pc[s] = "dispatch"
    /\ cmd(s) = CONNECT
    /\ param(s) = <<>>
    /\ SendOwn(s, Msg(<<ERROR, cmd(s), EmptyId>>), "exit")
    /\ UNCHANGED <<connections, closed, gone, clock, id, deadline, adds, sent,
                   scen, serveVars, now, stream, relayed>>

\* case CONNECT without a parameter (server.go 183-188)
ConnectEmpty(s) ==
    /\ pc[s] = "dispatch"
    /\ cmd(s) = CONNECT
    /\ param(s) = <<>>
    /\ SendOwn(s, Msg(<<ERROR, cmd(s), EmptyId>>), "loop")
    /\ UNCHANGED <<connections, closed, gone, clock, id, deadline, adds, sent,
                   scen, serveVars, now, stream, relayed>>

\* Send of the reply that follows a registry operation or a failure on
\* another socket
Reply(s) ==
    /\ pc[s] = "reply"
    /\ SendOwn(s, reply[s].msg, reply[s].then)
    /\ UNCHANGED <<connections, closed, gone, clock, id, deadline, adds, sent,
                   scen, serveVars, now, stream, relayed>>

\* case STATUS, connected: List.SetStatus takes mu.RLock, finds the record and
\* ConnInfo.SetStatus writes its status (server.go 189-191, conninfo.go 84-87, 50-51)
SetStatus(s) ==
    /\ pc[s] = "dispatch"
    /\ cmd(s) = STATUS
    /\ id[s] # <<>>
    /\ ~Locked
    /\ IF id[s] \in DOMAIN connections
       THEN /\ Store(connections[id[s]], [connections[id[s]] EXCEPT !.status = param(s)])
            /\ pc' = [pc EXCEPT ![s] = "setStatus"]
            /\ UNCHANGED reply
       ELSE /\ UNCHANGED <<connections, to>>
            /\ ReplyNext(s, Msg(<<OK, cmd(s), param(s)>>), "loop")
    /\ UNCHANGED <<closed, gone, clock, id, reader, deadline, message, length, remain,
                   out, adds, sent, scen, serveVars, now, stream, relayed>>

\* ConnInfo.SetStatus calls ci.Update() on the record it found, which reads
\* time.Now() (conninfo.go 52, 57)
SetStatusNow(s) ==
    /\ pc[s] = "setStatus"
    /\ now' = [now EXCEPT ![s] = clock]
    /\ pc' = [pc EXCEPT ![s] = "statusNow"]
    /\ UNCHANGED <<connections, closed, gone, clock, id, reader, deadline, message, to,
                   length, remain, reply, out, adds, sent, scen, serveVars, stream, relayed>>

\* ConnInfo.Update stores the time it read, and List.SetStatus releases
\* mu.RLock (conninfo.go 57, 89)
SetStatusUpdate(s) ==
    /\ pc[s] = "statusNow"
    /\ LET ci == connections[id[s]]
       IN  Store(ci, [ci EXCEPT !.updated = now[s]])
    /\ now' = [now EXCEPT ![s] = 0]
    /\ ReplyNext(s, Msg(<<OK, cmd(s), param(s)>>), "loop")
    /\ UNCHANGED <<closed, gone, clock, id, reader, deadline, message, length, remain,
                   out, adds, sent, scen, serveVars, stream, relayed>>

\* case STATUS, not connected (server.go 196-201)
StatusNotConnected(s) ==
    /\ pc[s] = "dispatch"
    /\ cmd(s) = STATUS
    /\ id[s] = <<>>
    /\ SendOwn(s, Msg(<<ERROR, cmd(s), NotConnected>>), "loop")
    /\ UNCHANGED <<connections, closed, gone, clock, id, deadline, adds, sent,
                   scen, serveVars, now, stream, relayed>>

\* case PING answering with the verb as the client wrote it, not uppercased
PingEchoesVerb(s) ==
    /\ pc[s] = "dispatch"
    /\ cmd(s) = PING
    /\ SendOwn(s, Msg(<<OK, SplitN2(TrimSpace(message[s]))[1], param(s)>>), "loop")
    /\ UNCHANGED <<connections, closed, gone, clock, id, deadline, adds, sent, scen, serveVars, now,
                   stream, relayed>>

\* case PING (server.go 236-240)
Ping(s) ==
    /\ pc[s] = "dispatch"
    /\ cmd(s) = PING
    /\ SendOwn(s, Msg(<<OK, cmd(s), param(s)>>), "loop")
    /\ UNCHANGED <<connections, closed, gone, clock, id, deadline, adds, sent,
                   scen, serveVars, now, stream, relayed>>

\* case DISCONNECT (server.go 241-243): the result of Send is not looked at
Disconnect(s) ==
    /\ pc[s] = "dispatch"
    /\ cmd(s) = DISCONNECT
    /\ SendOwn(s, Msg(<<OK, cmd(s)>>), "exit")
    /\ UNCHANGED <<connections, closed, gone, clock, id, deadline, adds, sent,
                   scen, serveVars, now, stream, relayed>>

\* default: reader.Reset(conn) (server.go 316-318)
Unknown(s) ==
    /\ pc[s] = "dispatch"
    /\ cmd(s) \notin {CONNECT, STATUS, INFO, PING, DISCONNECT, TO}
    /\ reader' = [reader EXCEPT ![s] = <<>>]
    /\ GotoDrop(s, "top")
    /\ UNCHANGED <<connections, closed, gone, clock, id, deadline, out, adds, sent,
                   scen, serveVars, now, stream, relayed>>

\* the deferred function: connections.Remove(id) (server.go 129-132)
DeferRemove(s) ==
    /\ pc[s] = "defer"
    /\ IF id[s] # <<>> THEN ListRemove(id[s]) ELSE UNCHANGED <<connections, closed>>
    /\ pc' = [pc EXCEPT ![s] = "close"]
    /\ UNCHANGED <<gone, clock, id, reader, deadline, message, to, length, remain,
                   reply, out, adds, sent, scen, serveVars, now, stream, relayed>>

\* the deferred function: conn.Close() (server.go 133)
DeferClose(s) ==
    /\ pc[s] = "close"
    /\ closed' = closed \cup {s}
    /\ pc' = [pc EXCEPT ![s] = "done"]
    /\ UNCHANGED <<connections, gone, clock, id, reader, deadline, message, to, length,
                   remain, reply, out, adds, sent, scen, serveVars, now, stream, relayed>>

\* case INFO whose connections.Info(param) does not wait for mu.Lock
InfoNoRLock(s) ==
    /\ pc[s] = "dispatch"
    /\ cmd(s) = INFO
    /\ LET info == ListInfo(param(s))
       IN  IF info # NilInfo /\ info.conn # "nil" /\ clock - info.updated < Timeout
           THEN /\ to' = [to EXCEPT ![s] = info]
                /\ pc' = [pc EXCEPT ![s] = "probe"]
                /\ UNCHANGED reply
           ELSE /\ ReplyNext(s, Msg(<<ERROR, cmd(s), param(s), NotFound>>), "loop")
                /\ UNCHANGED to
    /\ UNCHANGED <<connections, closed, gone, clock, id, reader, deadline, message,
                   length, remain, out, adds, sent, scen, serveVars, now, stream, relayed>>

\* case INFO: connections.Info(param) and the test of the record (server.go 202-204,
\* 220-234)
Info(s) ==
    /\ pc[s] = "dispatch"
    /\ cmd(s) = INFO
    /\ ~Locked
    /\ LET info == ListInfo(param(s))
       IN  IF info # NilInfo /\ info.conn # "nil" /\ clock - info.updated < Timeout
           THEN /\ to' = [to EXCEPT ![s] = info]
                /\ pc' = [pc EXCEPT ![s] = "probe"]
                /\ UNCHANGED reply
           ELSE /\ ReplyNext(s, Msg(<<ERROR, cmd(s), param(s), NotFound>>), "loop")
                /\ UNCHANGED to
    /\ UNCHANGED <<connections, closed, gone, clock, id, reader, deadline, message,
                   length, remain, out, adds, sent, scen, serveVars, now, stream, relayed>>

\* the probe whose error is not looked at: the reply is OK INFO whether
\* the probe was written or not
InfoProbeIgnoreError(s) ==
    /\ pc[s] = "probe"
    /\ \E ok \in WriteOutcomes(to[s].conn) :
          /\ out' = IF ok THEN Written(to[s].conn, Msg(<<PING, id[s]>>)) ELSE out
          /\ pc' = [pc EXCEPT ![s] = "info"]
    /\ UNCHANGED <<connections, closed, gone, clock, id, reader, deadline, message, to,
                   length, remain, reply, adds, sent, scen, serveVars, now, stream, relayed>>

\* Send(info.addr, info.conn, PING, id) (server.go 206-207)
InfoProbe(s) ==
    /\ pc[s] = "probe"
    /\ \E ok \in WriteOutcomes(to[s].conn) :
          /\ out' = IF ok THEN Written(to[s].conn, Msg(<<PING, id[s]>>)) ELSE out
          /\ pc' = [pc EXCEPT ![s] = IF ok THEN "info" ELSE "evictInfo"]
    /\ UNCHANGED <<connections, closed, gone, clock, id, reader, deadline, message, to,
                   length, remain, reply, adds, sent, scen, serveVars, now, stream, relayed>>

\* the probe failed: connections.Remove(param) (server.go 208-213)
InfoEvict(s) ==
    /\ pc[s] = "evictInfo"
    /\ ListRemove(param(s))
    /\ ReplyNext(s, Msg(<<ERROR, cmd(s), param(s), NotFound>>), "loop")
    /\ to' = [to EXCEPT ![s] = NilInfo]
    /\ UNCHANGED <<gone, clock, id, reader, deadline, message, length, remain, out,
                   adds, sent, scen, serveVars, now, stream, relayed>>

\* Send(addr, conn, OK, cmd, param, info.String()) (server.go 216-219)
InfoReply(s) ==
    /\ pc[s] = "info"
    /\ SendOwn(s, Msg(<<OK, cmd(s), param(s), String(to[s])>>), "loop")
    /\ UNCHANGED <<connections, closed, gone, clock, id, deadline, adds, sent,
                   scen, serveVars, now, stream, relayed>>

\* case TO without a parameter (server.go 245-252)
ToEmpty(s) ==
    /\ pc[s] = "dispatch"
    /\ cmd(s) = TO
    /\ param(s) = <<>>
    /\ SendOwn(s, Msg(<<ERROR, cmd(s), EmptyTo>>), "reset")
    /\ UNCHANGED <<connections, closed, gone, clock, id, deadline, adds, sent,
                   scen, serveVars, now, stream, relayed>>

\* case TO going on to the next line without reader.Reset(conn) when the
\* target is not connected
ToNoReset(s) ==
    /\ pc[s] = "dispatch"
    /\ cmd(s) = TO
    /\ param(s) # <<>>
    /\ ~Locked
    /\ LET t == ListInfo(param(s))
       IN  IF t = NilInfo \/ t.conn = "nil" \/ clock - t.updated > Timeout
           THEN /\ ReplyNext(s, Msg(<<ERROR, cmd(s), param(s), NotConnected>>), "loop")
                /\ UNCHANGED to
           ELSE /\ to' = [to EXCEPT ![s] = t]
                /\ pc' = [pc EXCEPT ![s] = "len"]
                /\ UNCHANGED reply
    /\ UNCHANGED <<connections, closed, gone, clock, id, reader, deadline, message,
                   length, remain, out, adds, sent, scen, serveVars, now, stream, relayed>>

\* case TO: connections.Info(param) and the test of the record (server.go 253-261)
To(s) ==
    /\ pc[s] = "dispatch"
    /\ cmd(s) = TO
    /\ param(s) # <<>>
    /\ ~Locked
    /\ LET t == ListInfo(param(s))
       IN  IF t = NilInfo \/ t.conn = "nil" \/ clock - t.updated > Timeout
           THEN /\ ReplyNext(s, Msg(<<ERROR, cmd(s), param(s), NotConnected>>), "reset")
                /\ UNCHANGED to
           ELSE /\ to' = [to EXCEPT ![s] = t]
                /\ pc' = [pc EXCEPT ![s] = "len"]
                /\ UNCHANGED reply
    /\ UNCHANGED <<connections, closed, gone, clock, id, reader, deadline, message,
                   length, remain, out, adds, sent, scen, serveVars, now, stream, relayed>>

\* binary.Read(reader, binary.LittleEndian, &length) (server.go 262-263)
ToReadLength(s) ==
    /\ pc[s] = "len"
    /\ ~Blocked(s)
    /\ length' = [length EXCEPT ![s] = Int32LE(SliceTo(reader[s], 4))]
    /\ reader' = [reader EXCEPT ![s] = SliceFrom(@, 4)]
    /\ pc' = [pc EXCEPT ![s] = "from"]
    /\ relayed' = [relayed EXCEPT ![s] =
                      [at |-> Len(stream[s]) - Len(reader[s]), wrote |-> <<>>]]
    /\ UNCHANGED <<connections, closed, gone, clock, id, deadline, message, to, remain,
                   reply, out, adds, sent, scen, serveVars, now, stream>>

\* binary.Read returns an error (server.go 263-270)
ToReadLengthError(s) ==
    /\ pc[s] = "len"
    /\ Blocked(s)
    /\ ReadFails(s)
    /\ SendOwn(s, Msg(<<ERROR, cmd(s), ReadErrText>>), "reset")
    /\ UNCHANGED <<connections, closed, gone, clock, id, deadline, adds, sent,
                   scen, serveVars, now, stream, relayed>>

\* a step of TO on the target's socket: it writes bytes and goes on at place p,
\* or fails, and the ERROR reply, reader.Reset and connections.Remove follow
ToWrite(s, bytes, p) ==
    \E ok \in WriteOutcomes(to[s].conn) :
        IF ok
        THEN /\ out' = IF bytes = <<>> THEN out ELSE Written(to[s].conn, bytes)
             /\ relayed' = [relayed EXCEPT ![s].wrote = @ \o bytes]
             /\ pc' = [pc EXCEPT ![s] = p]
             /\ UNCHANGED reply
        ELSE /\ ReplyNext(s, Msg(<<ERROR, cmd(s), ErrText>>), "evict")
             /\ UNCHANGED <<out, relayed>>

\* Send(to.addr, to.conn, "FROM", id) (server.go 272-280)
ToSendFrom(s) ==
    /\ pc[s] = "from"
    /\ ToWrite(s, Msg(<<FROM, id[s]>>), "wlen")
    /\ UNCHANGED <<connections, closed, gone, clock, id, reader, deadline, message, to,
                   length, remain, adds, sent, scen, serveVars, now, stream>>

\* binary.Write(to.conn, binary.LittleEndian, length) (server.go 281-289)
ToWriteLength(s) ==
    /\ pc[s] = "wlen"
    /\ ToWrite(s, PutInt32LE(length[s]), "wdl")
    /\ UNCHANGED <<connections, closed, gone, clock, id, reader, deadline, message, to,
                   length, remain, adds, sent, scen, serveVars, now, stream>>

\* to.conn.SetWriteDeadline, which fails on a closed socket, and the count
\* int64(length-4) of io.CopyN (server.go 290-300)
ToSetWriteDeadline(s) ==
    /\ pc[s] = "wdl"
    /\ IF to[s].conn \in closed
       THEN /\ ReplyNext(s, Msg(<<ERROR, cmd(s), ErrText>>), "evict")
            /\ UNCHANGED remain
       ELSE /\ pc' = [pc EXCEPT ![s] = "copy"]
            /\ remain' = [remain EXCEPT ![s] = Sub4(length[s])]
            /\ UNCHANGED reply
    /\ UNCHANGED <<connections, closed, gone, clock, id, reader, deadline, message, to,
                   length, out, adds, sent, scen, serveVars, now, stream, relayed>>

\* io.CopyN copies the buffered bytes, at most remain of them, to to.conn
\* (server.go 300)
ToCopy(s) ==
    /\ pc[s] = "copy"
    /\ remain[s] > 0
    /\ reader[s] # <<>>
    /\ LET k == IF Len(reader[s]) < remain[s] THEN Len(reader[s]) ELSE remain[s]
       IN  /\ ToWrite(s, SliceTo(reader[s], k), "copy")
           /\ reader' = [reader EXCEPT ![s] = SliceFrom(@, k)]
           /\ remain' = [remain EXCEPT ![s] = @ - k]
    /\ UNCHANGED <<connections, closed, gone, clock, id, deadline, message, to, length,
                   adds, sent, scen, serveVars, now, stream>>

\* io.CopyN fails reading the sender's socket (server.go 300-307)
ToCopyReadError(s) ==
    /\ pc[s] = "copy"
    /\ Blocked(s)
    /\ ReadFails(s)
    /\ ReplyNext(s, Msg(<<ERROR, cmd(s), ReadErrText>>), "evict")
    /\ UNCHANGED <<connections, closed, gone, clock, id, reader, deadline, message, to,
                   length, remain, out, adds, sent, scen, serveVars, now, stream, relayed>>

\* io.CopyN returns without an error: nothing is left to copy, or its count is
\* not positive (server.go 308-314)
ToCopied(s) ==
    /\ pc[s] = "copy"
    /\ remain[s] <= 0
    /\ SendOwn(s, Msg(<<OK, cmd(s), param(s)>>), "loop")
    /\ UNCHANGED <<connections, closed, gone, clock, id, deadline, adds, sent,
                   scen, serveVars, now, stream, relayed>>

\* a failed step of TO without connections.Remove(param): the record of the
\* target stays
ToEvictNoRemove(s) ==
    /\ pc[s] = "evictTo"
    /\ UNCHANGED <<connections, closed>>
    /\ GotoDrop(s, "top")
    /\ UNCHANGED <<gone, clock, id, reader, deadline, out, adds, sent, scen, serveVars, now, stream, relayed>>

\* after a failed step of TO: connections.Remove(param) (server.go 278, 287, 297, 306)
ToEvict(s) ==
    /\ pc[s] = "evictTo"
    /\ ListRemove(param(s))
    /\ GotoDrop(s, "top")
    /\ UNCHANGED <<gone, clock, id, reader, deadline, out, adds, sent, scen, serveVars, now, stream, relayed>>

(***************************************************************************)
(* Server.Serve (server.go 68-96).                                         *)
(***************************************************************************)
\* the first retry delay and the largest, in milliseconds (server.go 79, 83)
FirstDelay == 5
MaxDelay == 1000

\* the rest of the handlers' state, which Serve does not touch
handlerVars ==
    <<connections, closed, gone, clock, id, reader, deadline, message, to,
      length, remain, reply, out, adds, sent, scen, now, stream, relayed>>

\* the temporary error whose delay is doubled without the test against max
AcceptTemporaryNoMax ==
    /\ serving = "accept"
    /\ errs < MaxErrs
    /\ tempDelay' = IF tempDelay = 0 THEN FirstDelay ELSE tempDelay * 2
    /\ slept' = tempDelay'
    /\ errs' = errs + 1
    /\ UNCHANGED <<handlerVars, pc, l, serving>>

\* l.Accept() returns a temporary net.Error: tempDelay is set or doubled and
\* cut to max, Serve sleeps that long and goes round again (server.go 76-89)
AcceptTemporary ==
    /\ serving = "accept"
    /\ errs < MaxErrs
    /\ LET d == IF tempDelay = 0 THEN FirstDelay ELSE tempDelay * 2
       IN  tempDelay' = IF d > MaxDelay THEN MaxDelay ELSE d
    /\ slept' = tempDelay'
    /\ errs' = errs + 1
    /\ UNCHANGED <<handlerVars, pc, l, serving>>

\* l.Accept() returns any other error: l.Close() and return err (server.go 90-91)
AcceptError ==
    /\ serving = "accept"
    /\ l' = "closed"
    /\ serving' = "returned"
    /\ UNCHANGED <<handlerVars, pc, tempDelay, errs, slept>>

\* l.Accept() returns the connection of client s: tempDelay = 0 and
\* go srv.servConn(conn) (server.go 93-94)
Accept(s) ==
    /\ serving = "accept"
    /\ pc[s] = "listen"
    /\ tempDelay' = 0
    /\ errs' = 0
    /\ pc' = [pc EXCEPT ![s] = "top"]
    /\ UNCHANGED <<handlerVars, l, serving, slept>>

(***************************************************************************)
(* The specifications.                                                     *)
(***************************************************************************)
InitWith(sc, active) ==
    /\ connections = <<>>
    /\ closed = {}
    /\ gone = {}
    /\ clock = 0
    /\ pc = [s \in Sess |-> IF s \in active THEN "top" ELSE "done"]
    /\ id = [s \in Sess |-> <<>>]
    /\ reader = [s \in Sess |-> <<>>]
    /\ deadline = [s \in Sess |-> 0]
    /\ message = [s \in Sess |-> <<>>]
    /\ to = [s \in Sess |-> NilInfo]
    /\ length = [s \in Sess |-> 0]
    /\ remain = [s \in Sess |-> 0]
    /\ reply = [s \in Sess |-> NoReply]
    /\ out = [s \in Sess |-> <<>>]
    /\ adds = <<>>
    /\ sent = 0
    /\ scen = sc
    /\ now = [s \in Sess |-> 0]
    /\ stream = [s \in Sess |-> <<>>]
    /\ relayed = [s \in Sess |-> NoRelay]
    /\ tempDelay = 0
    /\ l = "open"
    /\ serving = "accept"
    /\ errs = 0
    /\ slept = 0

Frame(s) ==
    \/ SetReadDeadline(s) \/ Recv(s) \/ PeerClose(s) \/ ReadString(s) \/ ReadError(s)
    \/ Touch(s) \/ Update(s) \/ Reply(s) \/ DeferRemove(s) \/ DeferClose(s)

Presence(s) ==
    \/ Connect(s) \/ ConnectAdd(s) \/ SetStatus(s) \/ SetStatusNow(s) \/ SetStatusUpdate(s)
    \/ StatusNotConnected(s) \/ Ping(s) \/ Disconnect(s) \/ Unknown(s)
    \/ Info(s) \/ InfoProbe(s) \/ InfoEvict(s) \/ InfoReply(s)

Relay(s) ==
    \/ ToEmpty(s) \/ To(s) \/ ToReadLength(s) \/ ToReadLengthError(s) \/ ToSendFrom(s)
    \/ ToWriteLength(s) \/ ToSetWriteDeadline(s) \/ ToCopy(s) \/ ToCopyReadError(s)
    \/ ToCopied(s) \/ ToEvict(s)

Init == InitWith("reg", {"s1", "s2"})
Next == Tick \/ \E s \in Sess : Frame(s) \/ Presence(s)
Spec == Init /\ [][Next]_vars

\* a sender and a target: CONNECT and TO
InitRelay == InitWith("relay", {"s1", "s2"})
NextRelay ==
    Tick \/ \E s \in Sess : Frame(s) \/ RecvLast(s) \/ Connect(s) \/ ConnectAdd(s) \/ ConnectEmpty(s) \/ Relay(s)
SpecRelay == InitRelay /\ [][NextRelay]_vars

\* an owner that goes idle, and a second client that registers the same id or
\* asks for it; every handler that can take a step takes it in the end, the
\* clients and the clock are free
InitIdle == InitWith("idle", {"s1", "s2"})
Runs(s) ==
    \/ SetReadDeadline(s) \/ ReadString(s) \/ ReadError(s) \/ Touch(s) \/ Update(s)
    \/ Reply(s) \/ DeferRemove(s) \/ DeferClose(s)
    \/ Connect(s) \/ ConnectAdd(s) \/ Info(s) \/ InfoProbe(s) \/ InfoEvict(s) \/ InfoReply(s)
NextIdle == Tick \/ \E s \in Sess : Recv(s) \/ PeerClose(s) \/ Runs(s)

\* clients that make protocol errors: CONNECT without an id, STATUS before
\* CONNECT, TO without a target
InitUser == InitWith("user", {"s1", "s2"})
NextUser ==
    Tick \/ \E s \in Sess :
               \/ Frame(s)
               \/ Connect(s) \/ ConnectAdd(s) \/ ConnectEmpty(s)
               \/ SetStatus(s) \/ SetStatusNow(s) \/ SetStatusUpdate(s) \/ StatusNotConnected(s)
               \/ ToEmpty(s) \/ Disconnect(s)
SpecUser == InitUser /\ [][NextUser]_vars

\* two sessions under one id, with the clock free to move while a handler is
\* inside ConnInfo.Update
InitRace == InitWith("race", {"s1", "s2"})
NextRace ==
    Tick \/ TickInUpdate
         \/ \E s \in Sess :
               \/ Frame(s)
               \/ Connect(s) \/ ConnectAdd(s) \/ SetStatus(s) \/ SetStatusNow(s) \/ SetStatusUpdate(s)
SpecRace == InitRace /\ [][NextRace]_vars

\* the accept loop, with every client still to be accepted
InitServe ==
    /\ connections = <<>>
    /\ closed = {}
    /\ gone = {}
    /\ clock = 0
    /\ pc = [s \in Sess |-> "listen"]
    /\ id = [s \in Sess |-> <<>>]
    /\ reader = [s \in Sess |-> <<>>]
    /\ deadline = [s \in Sess |-> 0]
    /\ message = [s \in Sess |-> <<>>]
    /\ to = [s \in Sess |-> NilInfo]
    /\ length = [s \in Sess |-> 0]
    /\ remain = [s \in Sess |-> 0]
    /\ reply = [s \in Sess |-> NoReply]
    /\ out = [s \in Sess |-> <<>>]
    /\ adds = <<>>
    /\ sent = 0
    /\ scen = "serve"
    /\ now = [s \in Sess |-> 0]
    /\ stream = [s \in Sess |-> <<>>]
    /\ relayed = [s \in Sess |-> NoRelay]
    /\ tempDelay = 0
    /\ l = "open"
    /\ serving = "accept"
    /\ errs = 0
    /\ slept = 0
NextServe == AcceptTemporary \/ AcceptError \/ \E s \in Sess : Accept(s)
SpecServe == InitServe /\ [][NextServe]_vars

\* clients that send lines of MaxLine and of MaxLine + 1 bytes
InitCap == InitWith("cap", {"s1", "s2"})
NextCap == Tick \/ \E s \in Sess : Frame(s) \/ Connect(s) \/ ConnectAdd(s) \/ Ping(s)
SpecCap == InitCap /\ [][NextCap]_vars

\* a sender whose frames have a length of 6, of 3 and of the least int32
InitWrap == InitWith("wrap", {"s1", "s2"})
NextWrap ==
    Tick \/ \E s \in Sess :
               \/ Frame(s) \/ Connect(s) \/ ConnectAdd(s)
               \/ To(s) \/ ToReadLength(s) \/ ToSendFrom(s) \/ ToWriteLength(s)
               \/ ToSetWriteDeadline(s) \/ ToCopy(s) \/ ToCopyReadError(s)
               \/ ToCopied(s) \/ ToEvict(s)
SpecWrap == InitWrap /\ [][NextWrap]_vars

\* clients that give an address of their own in CONNECT
InitAddr == InitWith("addr", {"s1", "s2"})
NextAddr == Tick \/ \E s \in Sess : Frame(s) \/ Connect(s) \/ ConnectAdd(s)
SpecAddr == InitAddr /\ [][NextAddr]_vars

\* handler s is at a step that takes mu.Lock
Locks(s) ==
    \/ pc[s] \in {"evictInfo", "evictTo"}
    \/ pc[s] = "defer" /\ id[s] # <<>>
    \/ pc[s] = "dispatch" /\ cmd(s) = CONNECT /\ param(s) # <<>>

\* handler s is at a step that takes mu.RLock
RLocks(s) ==
    \/ pc[s] = "touch" /\ id[s] # <<>>
    \/ /\ pc[s] = "dispatch"
       /\ \/ cmd(s) = INFO
          \/ cmd(s) = TO /\ param(s) # <<>>
          \/ cmd(s) = STATUS /\ id[s] # <<>>

\* the goroutine of handler s can run: it has not returned, it is not blocked
\* in a read of its socket and it does not wait for the lock
Runnable(s) ==
    /\ pc[s] # "done"
    /\ Blocked(s) => ReadFails(s)
    /\ RLocked => ~Locks(s)
    /\ Locked => ~(Locks(s) \/ RLocks(s))

\* the places of a handler, and a step of handler s: it leaves its place
Places ==
    {"top", "read", "touch", "update", "dispatch", "add", "reply", "setStatus",
     "statusNow", "probe", "info",
     "evictInfo", "len", "from", "wlen", "wdl", "copy", "evictTo", "defer", "close",
     "done", "listen"}
Advance(s) == Runnable(s) /\ \E p \in Places \ {pc[s]} : pc' = [pc EXCEPT ![s] = p]

\* the scheduler runs every goroutine that can run (go srv.servConn(conn))
SpecIdle == InitIdle /\ [][NextIdle]_vars /\ \A s \in Sess : WF_pc(Advance(s))

(***************************************************************************)
(* The claims.                                                             *)
(***************************************************************************)
HasPrefix(m, p) == Len(m) >= Len(p) /\ SubSeq(m, 1, Len(p)) = p
HasSuffix(m, p) == Len(m) >= Len(p) /\ SubSeq(m, Len(m) - Len(p) + 1, Len(m)) = p

\* handler s takes a step
Steps(s) == pc'[s] # pc[s]

\* the messages of o that begin with the words ws
Replies(o, ws) == {i \in 1..Len(o) : HasPrefix(o[i], Join(ws))}

\* C1: when a handler that is identified as id exits, the record of id is
\* removed if and only if it holds the handler's own socket; the record and
\* the socket of a successor that registered the same id are left alone.
C1_ExitSparesSuccessor ==
    [][\A s \in Sess :
          (pc[s] = "defer" /\ Steps(s) /\ id[s] \in DOMAIN connections)
          => IF connections[id[s]].conn = s
             THEN id[s] \notin DOMAIN connections'
             ELSE connections' = connections /\ closed' = closed]_vars

\* C2: after CONNECT x on session A and a later CONNECT x on another session B,
\* A's socket is closed, and whenever x is in the registry its record holds the
\* socket of the most recent CONNECT x.
C2_LastConnectHoldsId ==
    \A x \in DOMAIN adds :
        LET h == adds[x]
            last == h[Len(h)]
        IN  /\ \A i \in 1..Len(h) : h[i] # last => h[i] \in closed
            /\ x \in DOMAIN connections => connections[x].conn = last

\* C2's case: B has displaced A under the id x, A's handler still runs
C2_Displaced ==
    \E x \in DOMAIN adds :
        /\ Len(adds[x]) = 2
        /\ adds[x][1] # adds[x][2]
        /\ x \in DOMAIN connections
        /\ connections[x].conn = adds[x][2]
        /\ adds[x][1] \in closed
        /\ pc[adds[x][1]] \notin {"defer", "close", "done"}

\* "already connected"
AlreadyConnected == <<97,108,114,101,97,100,121,32,99,111,110,110,101,99,116,101,100>>

\* C3: a CONNECT on a session that has completed a CONNECT is answered with
\* ERROR CONNECT already connected and changes neither the session's id nor
\* the registry, and the session stays open.
C3_SecondConnectRefused ==
    [][\A s \in Sess :
          (pc[s] = "dispatch" /\ cmd(s) = CONNECT /\ id[s] # <<>> /\ Steps(s))
          => /\ connections' = connections
             /\ id' = id
             /\ closed' = closed
             /\ \/ reply'[s].msg = Msg(<<ERROR, CONNECT, AlreadyConnected>>)
                \/ /\ Len(out'[s]) = Len(out[s]) + 1
                   /\ out'[s][Len(out'[s])] = Msg(<<ERROR, CONNECT, AlreadyConnected>>)]_vars

\* C4: every record in the registry holds an open socket: no record stays in
\* the registry once the socket it holds has been closed (the registry is
\* looked at when no Add is in progress).
C4_RecordsHoldOpenSockets ==
    ~Locked => \A x \in DOMAIN connections : connections[x].conn \notin closed

\* C5: every session that has completed CONNECT either is the socket of the
\* record under its id, or its socket is closed.
C5_NoZombie ==
    \A s \in Sess :
        id[s] # <<>>
        => \/ id[s] \in DOMAIN connections /\ connections[id[s]].conn = s
           \/ s \in closed

\* C5's case: a session whose record was evicted or replaced while its handler
\* still runs
C5_Evicted ==
    \E s \in Sess :
        /\ id[s] # <<>>
        /\ pc[s] \notin {"defer", "close", "done"}
        /\ s \in closed
        /\ id[s] \notin DOMAIN connections

\* C8: a line with an unknown verb produces no reply and consumes only that
\* line: the bytes buffered after it stay to be read as the next command.
C8_UnknownConsumesOneLine ==
    [][\A s \in Sess :
          (/\ pc[s] = "dispatch"
           /\ cmd(s) \notin {CONNECT, STATUS, INFO, PING, DISCONNECT, TO}
           /\ Steps(s))
          => out' = out /\ reader'[s] = reader[s] /\ pc'[s] = "top"]_vars

\* C9, as claimed: a line of more than 256 bytes changes nothing at all, the
\* updated timestamp of the session's own record included.
C9_LongLineChangesNothing ==
    [][\A s \in Sess :
          (Len(message[s]) > MaxLine /\ Steps(s))
          => /\ connections' = connections
             /\ out' = out /\ id' = id /\ closed' = closed
             /\ pc'[s] \in {"update", "top"}]_vars

\* C9, amended: a line of more than 256 bytes causes no reply, leaves the
\* session's id and every socket as they were and the handler goes on with the
\* next line; in the registry it changes only the updated timestamp of the
\* record under the session's id, which becomes the time the handler read from
\* the clock when it took the line.
C9_LongLineOnlyTouches ==
    [][\A s \in Sess :
          (Len(message[s]) > MaxLine /\ Steps(s))
          => /\ connections' =
                   IF pc[s] = "update"
                   THEN [connections EXCEPT ![id[s]].updated = now[s]]
                   ELSE connections
             /\ pc[s] = "update" => now[s] <= clock
             /\ (pc[s] = "touch" /\ id[s] \in DOMAIN connections)
                => (pc'[s] = "update" /\ now'[s] = clock)
             /\ out' = out /\ id' = id /\ closed' = closed
             /\ pc'[s] \in {"update", "top"}]_vars

\* C9's case: an identified session has read a long line at a later minute
\* than the one its record was last updated in
C9_LongLineRead ==
    \E s \in Sess :
        /\ pc[s] = "touch"
        /\ Len(message[s]) > MaxLine
        /\ id[s] \in DOMAIN connections
        /\ connections[id[s]].conn = s
        /\ connections[id[s]].updated < clock

\* the parameter of the last OK STATUS written to a socket, in a set: empty
\* when there is none
LastStatus(o) ==
    LET is == Replies(o, <<OK, STATUS, <<>>>>)
    IN  IF is = {} THEN {}
        ELSE LET m == o[CHOOSE i \in is : \A j \in is : j <= i]
             IN  {SubSeq(m, Len(OK) + Len(STATUS) + 3, Len(m) - 1)}

\* C10: after OK STATUS s, the reply to an INFO for the session's own id is
\* OK INFO with s as its last field, when no STATUS of the session came between.
C10_InfoSelfShowsStatus ==
    [][\A s \in Sess :
          (/\ pc[s] \in {"info", "reply"}
           /\ cmd(s) = INFO
           /\ param(s) = id[s]
           /\ LastStatus(out[s]) # {}
           /\ Len(out'[s]) = Len(out[s]) + 1
           /\ Steps(s))
          => \A st \in LastStatus(out[s]) :
                LET m == out'[s][Len(out'[s])]
                IN  /\ HasPrefix(m, Join(<<OK, INFO, id[s]>>))
                    /\ HasSuffix(m, <<SP>> \o st \o <<LF>>)]_vars

\* the length prefix of the frame of handler s's last TO, as its client sent
\* it: 4 bytes, and the signed 32-bit number they are
SentPrefix(s) == SubSeq(stream[s], relayed[s].at + 1, relayed[s].at + 4)
SentLength(s) == Int32LE(SentPrefix(s))

\* handler s, in a TO, writes a reply that begins with the words ws to its
\* own socket
AnswersTo(s, ws) ==
    /\ pc[s] \in {"len", "from", "wlen", "wdl", "copy", "reply"}
    /\ cmd(s) = TO
    /\ Len(out'[s]) = Len(out[s]) + 1
    /\ HasPrefix(out'[s][Len(out'[s])], Join(ws))

\* C6: when a TO with length prefix L is answered OK TO, the handler has
\* written to the target for that relay the line FROM senderId, then the 4
\* length bytes as sent, then exactly L - 4 body bytes: the bytes that follow
\* the prefix in the sender's stream, in order.
C6_RelayDeliversFrame ==
    [][\A s \in Sess :
          AnswersTo(s, <<OK, TO>>)
          => LET L == SentLength(s)
                 head == Msg(<<FROM, id[s]>>) \o SentPrefix(s)
                 body == SliceFrom(relayed[s].wrote, Len(head))
             IN  /\ HasPrefix(relayed[s].wrote, head)
                 /\ Len(body) = L - 4
                 /\ body = SubSeq(stream[s], relayed[s].at + 5, relayed[s].at + L)]_vars

SendsReply(s) ==
    \/ out'[s] = Append(out[s], reply[s].msg) /\ pc'[s] = "top"
    \/ out' = out /\ s \in closed \cup gone /\ pc'[s] = "defer"

\* C11: OK INFO is sent only after the line PING requesterId has been written
\* to the target's socket; when the probe of a present and fresh target fails,
\* the record under the target's id is removed, the requester is answered
\* ERROR INFO target not found, and its handler goes on.
C11_InfoProbesBeforeReply ==
    [][\A s \in Sess :
          /\ (Steps(s) /\ pc'[s] = "info")
             => /\ pc[s] = "probe"
                /\ out'[to[s].conn] = Append(out[to[s].conn], Msg(<<PING, id[s]>>))
          /\ (/\ Steps(s) /\ cmd(s) = INFO /\ pc[s] # "probe"
              /\ Len(out'[s]) = Len(out[s]) + 1
              /\ HasPrefix(out'[s][Len(out'[s])], OK))
             => pc[s] = "info"
          /\ (pc[s] = "probe" /\ Steps(s) /\ out' = out)
             => pc'[s] = "evictInfo"
          /\ (pc[s] = "evictInfo" /\ Steps(s))
             => /\ param(s) \notin DOMAIN connections'
                /\ pc'[s] = "reply"
                /\ reply'[s].msg = Msg(<<ERROR, INFO, param(s), NotFound>>)
          /\ (pc[s] = "reply" /\ cmd(s) = INFO /\ Steps(s))
             => SendsReply(s)]_vars

\* C11's case: the probe of a present and fresh target has failed, its peer
\* being gone
C11_ProbeFailed ==
    \E s \in Sess :
        /\ pc[s] = "evictInfo"
        /\ param(s) \in DOMAIN connections
        /\ connections[param(s)].conn = to[s].conn
        /\ clock - connections[param(s)].updated < Timeout
        /\ to[s].conn \in gone

\* the record ci is stale for command c, by the test the command makes of it
StaleFor(c, ci) ==
    IF c = INFO THEN clock - ci.updated >= Timeout ELSE clock - ci.updated > Timeout

\* C12: an INFO or a TO that names a target whose record is in the registry
\* but stale is answered with the error line (not found, not connected), the
\* handler goes on with the next line, and when it does the stale record is
\* no longer in the registry.
C12_StaleTargetEvicted ==
    [][\A s \in Sess :
          /\ (/\ pc[s] = "dispatch" /\ cmd(s) \in {INFO, TO} /\ Steps(s)
              /\ param(s) \in DOMAIN connections
              /\ StaleFor(cmd(s), connections[param(s)]))
             => /\ pc'[s] = "reply"
                /\ reply'[s].msg =
                      Msg(<<ERROR, cmd(s), param(s),
                            IF cmd(s) = INFO THEN NotFound ELSE NotConnected>>)
          /\ (/\ pc[s] = "reply" /\ cmd(s) \in {INFO, TO} /\ Steps(s)
              /\ reply[s].msg \in {Msg(<<ERROR, INFO, param(s), NotFound>>),
                                   Msg(<<ERROR, TO, param(s), NotConnected>>)})
             => /\ SendsReply(s)
                /\ pc'[s] = "top"
                   => ~(/\ param(s) \in DOMAIN connections'
                        /\ StaleFor(cmd(s), connections'[param(s)]))]_vars

\* handler s, in a TO, is about to tell its client that a write to the
\* target's socket failed
TargetFailed(s) ==
    /\ pc[s] = "reply"
    /\ cmd(s) = TO
    /\ reply[s] = [msg |-> Msg(<<ERROR, TO, ErrText>>), then |-> "evict"]

\* a failed write to the target leads to the reply ERROR TO; once that reply
\* is written the record under the target's id is removed and the handler
\* goes on with the next line
TargetFailureReplies(s) ==
    /\ (/\ pc[s] \in {"from", "wlen", "wdl", "copy"} /\ ~Blocked(s)
        /\ pc'[s] = "reply")
       => TargetFailed(s)'
    /\ (TargetFailed(s) /\ Steps(s))
       => \/ out'[s] = Append(out[s], reply[s].msg) /\ pc'[s] = "evictTo"
          \/ out' = out /\ s \in closed \cup gone /\ pc'[s] = "defer"
    /\ (pc[s] = "evictTo" /\ Steps(s))
       => param(s) \notin DOMAIN connections' /\ pc'[s] = "top"

Idle(s) == id[s] # <<>> /\ pc[s] = "read" /\ Blocked(s) /\ clock >= deadline[s]

\* C14: an identified session that has gone without a complete line for the
\* idle timeout has in the end its socket closed and its record out of the
\* registry, and an INFO for an id that has no record is answered
\* ERROR INFO id not found.
C14_IdleSessionClosed ==
    /\ \A s \in Sess :
          Idle(s) ~> (/\ s \in closed
                      /\ ~(id[s] \in DOMAIN connections /\ connections[id[s]].conn = s))
    /\ [][\A r \in Sess :
             (/\ pc[r] = "dispatch" /\ cmd(r) = INFO /\ Steps(r)
              /\ param(r) \notin DOMAIN connections)
             => reply'[r].msg = Msg(<<ERROR, INFO, param(r), NotFound>>)]_vars

\* C14's case: the handler of a session that alone registered its id has
\* returned on the expiry of its read deadline, and another client has since
\* been answered ERROR INFO id not found
C14_IdleClosedThenAsked ==
    \E s \in Sess, r \in Sess :
        /\ r # s
        /\ id[s] \in DOMAIN adds
        /\ adds[id[s]] = <<s>>
        /\ pc[s] = "done"
        /\ s \notin gone
        /\ clock >= deadline[s]
        /\ id[s] \notin DOMAIN connections
        /\ Len(out[r]) > 0
        /\ out[r][Len(out[r])] = Msg(<<ERROR, INFO, id[s], NotFound>>)

\* session s registered an id that another session has registered since
Displaced(s) ==
    \E x \in DOMAIN adds :
        /\ \E i \in 1..Len(adds[x]) : adds[x][i] = s
        /\ adds[x][Len(adds[x])] # s

\* C15: once a second session has registered its id, the handler of the
\* previous owner returns in the end: Add has closed its socket.
C15_DisplacedHandlerEnds ==
    \A s \in Sess : Displaced(s) ~> pc[s] = "done"

\* C15's case: a displaced handler has returned though its client had not
\* closed and its read deadline had not passed
C15_DisplacedReturned ==
    \E s \in Sess :
        /\ Displaced(s)
        /\ pc[s] = "done"
        /\ s \notin gone
        /\ clock < deadline[s]

\* the verb of the line handler s has read, uppercased
RequestVerb(s) ==
    LET line == TrimSpace(message[s])
        i == IndexByte(line, SP)
    IN  ToUpper(IF i < 0 THEN line ELSE SliceTo(line, i))

\* handler s writes a reply to its own socket (not a probe or relayed bytes
\* to a target that is itself)
WritesReply(s) ==
    /\ Steps(s)
    /\ Len(out'[s]) = Len(out[s]) + 1
    /\ pc[s] \notin {"probe", "from", "wlen", "wdl"}
    /\ ~(pc[s] = "copy" /\ remain[s] > 0)

\* C16: every reply has the form STATUS CMD ..., ended by LF, where STATUS is
\* OK or ERROR and CMD is the uppercased verb of the line it answers.
C16_RepliesEchoVerb ==
    [][\A s \in Sess :
          WritesReply(s)
          => LET m == out'[s][Len(out'[s])]
             IN  \E st \in {OK, ERROR} :
                    LET head == st \o <<SP>> \o RequestVerb(s)
                    IN  /\ HasPrefix(m, head)
                        /\ Len(m) > Len(head)
                        /\ m[Len(head) + 1] \in {SP, LF}
                        /\ m[Len(m)] = LF]_vars

\* C16's case: a verb written in lower case has been answered
C16_LowerCaseAnswered ==
    \E s \in Sess :
        /\ pc[s] = "top"
        /\ stream[s] = LnPingLower
        /\ Len(out[s]) > 0
        /\ out[s][Len(out[s])] = Msg(<<OK, PING, <<120>>>>)

\* C17: for as long as a record remains in the registry, its updated never
\* decreases from one state to the next, whatever the interleaving of the
\* handlers that touch it.
C17_UpdatedNeverDecreases ==
    [][\A x \in DOMAIN connections :
          (x \in DOMAIN connections' /\ connections'[x].ser = connections[x].ser)
          => connections'[x].updated >= connections[x].updated]_vars

\* handler s has read a TO that names an id without a record
AbsentTarget(s) ==
    /\ pc[s] = "dispatch"
    /\ cmd(s) = TO
    /\ param(s) # <<>>
    /\ param(s) \notin DOMAIN connections

\* handler s is about to send ERROR TO target not connected
RefusesTarget(s) ==
    /\ pc[s] = "reply"
    /\ reply[s].msg = Msg(<<ERROR, TO, param(s), NotConnected>>)

\* C18: a TO that names an id without a record is answered ERROR TO target not
\* connected; nothing is written to another socket, the registry is left as it
\* was, and the handler is back at the top of its loop on an open socket with
\* an empty reader and no trace of the TO, so that the client's next line is
\* taken as a command.  If the reply cannot be written, the handler returns.
C18_AbsentTargetRefused ==
    [][\A s \in Sess :
          /\ (AbsentTarget(s) /\ Steps(s))
             => /\ pc'[s] = "reply"
                /\ reply'[s].msg = Msg(<<ERROR, TO, param(s), NotConnected>>)
                /\ out' = out /\ connections' = connections /\ closed' = closed
          /\ (RefusesTarget(s) /\ Steps(s))
             => /\ connections' = connections /\ closed' = closed /\ id' = id
                /\ \A r \in Sess \ {s} : out'[r] = out[r]
                /\ IF pc'[s] = "top"
                   THEN /\ out'[s] = Append(out[s], reply[s].msg)
                        /\ s \notin closed
                        /\ reader'[s] = <<>> /\ message'[s] = <<>>
                        /\ to'[s] = NilInfo /\ length'[s] = 0 /\ remain'[s] = 0
                   ELSE /\ pc'[s] = "defer"
                        /\ out'[s] = out[s]
                        /\ s \in closed \cup gone]_vars

\* C18's case: a session was refused a TO to an id that never was registered,
\* and its next line has been answered
C18_RefusedThenAnswered ==
    \E s \in Sess :
        /\ <<98>> \notin DOMAIN adds
        /\ \E i \in 1..Len(out[s]) :
              /\ out[s][i] = Msg(<<ERROR, TO, <<98>>, NotConnected>>)
              /\ \E j \in (i + 1)..Len(out[s]) : HasPrefix(out[s][j], Join(<<OK, CONNECT, <<97>>>>))

\* handler s has read a line that is a protocol error of its client
UserError(s) ==
    /\ pc[s] = "dispatch"
    /\ \/ cmd(s) = CONNECT /\ param(s) = <<>>
       \/ cmd(s) = STATUS /\ id[s] = <<>>
       \/ cmd(s) = TO /\ param(s) = <<>>

\* C19: a CONNECT without an id, a STATUS before CONNECT and a TO without a
\* target are answered with one ERROR line, on the handler's own socket only;
\* the registry and the session's id are left as they were and the handler
\* goes on, unless the reply could not be written.  A handler returns only
\* after DISCONNECT, on a socket that is closed or whose peer is gone, or
\* after its read deadline has passed.
C19_UserErrorsKeepSession ==
    [][\A s \in Sess :
          /\ (UserError(s) /\ Steps(s))
             => /\ connections' = connections /\ id' = id /\ closed' = closed
                /\ \A r \in Sess \ {s} : out'[r] = out[r]
                /\ s \notin closed \cup gone => pc'[s] = "top"
                /\ IF pc'[s] = "top"
                   THEN /\ Len(out'[s]) = Len(out[s]) + 1
                        /\ SubSeq(out'[s], 1, Len(out[s])) = out[s]
                        /\ HasPrefix(out'[s][Len(out'[s])], Join(<<ERROR, cmd(s), <<>>>>))
                   ELSE pc'[s] = "defer" /\ out'[s] = out[s]
          /\ (pc[s] # "defer" /\ pc'[s] = "defer")
             => \/ pc[s] = "dispatch" /\ cmd(s) = DISCONNECT
                \/ s \in closed \cup gone
                \/ Blocked(s) /\ clock >= deadline[s]]_vars

\* C19's case: a session has made the three protocol errors and is still
\* open, with three ERROR lines and no record
C19_ThreeErrorsStillOpen ==
    \E s \in Sess :
        /\ pc[s] = "top"
        /\ s \notin closed
        /\ id[s] = <<>>
        /\ Replies(out[s], <<ERROR, CONNECT, EmptyId>>) # {}
        /\ Replies(out[s], <<ERROR, STATUS, NotConnected>>) # {}
        /\ Replies(out[s], <<ERROR, TO, EmptyTo>>) # {}
        /\ Len(out[s]) = 3

\* C20: a TO whose length prefix is FC FF FF FF, L = 4294967292 as an unsigned
\* number, is accepted and its L - 4 body bytes are streamed: when it is
\* answered OK TO, the handler has written FROM senderId, the prefix and
\* L - 4 body bytes to the target.  (L is SentLength + 2^32 here; the lengths
\* are compared after subtracting 2^31 from both.)
C20_MaxLengthStreamed ==
    [][\A s \in Sess :
          (AnswersTo(s, <<OK, TO>>) /\ SentPrefix(s) = <<252,255,255,255>>)
          => LET head == Msg(<<FROM, id[s]>>) \o SentPrefix(s)
                 body == SliceFrom(relayed[s].wrote, Len(head))
             IN  /\ HasPrefix(relayed[s].wrote, head)
                 /\ (Len(body) - MaxInt32) - 1 = (SentLength(s) - 4) + MaxInt32 + 1]_vars

\* C21: CONNECT with a parameter that contains a space registers the text
\* before the first space as the id, with the text after that space as addr2,
\* whatever the length of the id; CONNECT with a parameter without a space
\* registers the whole parameter, with addr2 0.0.0.0:0.
C21_ConnectSplitsAtFirstSpace ==
    [][\A s \in Sess :
          (pc[s] = "add" /\ Steps(s))
          => LET p == param(s)
                 k == IndexByte(p, SP)
                 i == IF k < 0 THEN p ELSE SubSeq(p, 1, k)
                 a == IF k < 0 THEN DefaultAddr2 ELSE SubSeq(p, k + 2, Len(p))
             IN  /\ id'[s] = i
                 /\ i \in DOMAIN connections'
                 /\ connections'[i].conn = s
                 /\ connections'[i].addr2 = a]_vars

\* C22: every line read on an identified session sets the updated of the
\* record under the session's id to the current time before the line is
\* dispatched, whatever its verb and its length: a handler reaches the
\* dispatch (or, for a long line, the top of its loop) only from the read of a
\* line, and when it does the record under its id, if there is one, has the
\* current time.
C22_EveryLineTouches ==
    [][\A s \in Sess :
          /\ (Steps(s) /\ pc'[s] = "dispatch") => pc[s] \in {"touch", "update"}
          /\ (/\ Steps(s)
              /\ pc[s] \in {"touch", "update"}
              /\ pc'[s] \in {"dispatch", "top"}
              /\ id[s] # <<>>
              /\ id[s] \in DOMAIN connections')
             => connections'[id[s]].updated = clock]_vars

\* C22's case: an identified session is about to dispatch a line with an
\* unknown verb, read in a later minute than its CONNECT, and its record has
\* the current time
C22_UnknownVerbTouched ==
    \E s \in Sess :
        /\ pc[s] = "dispatch"
        /\ cmd(s) \notin {CONNECT, STATUS, INFO, PING, DISCONNECT, TO}
        /\ id[s] \in DOMAIN connections
        /\ connections[id[s]].conn = s
        /\ clock > 0
        /\ connections[id[s]].updated = clock

\* C23: when Add replaces the record of an id, the old socket is closed only
\* after the new record is installed: a step of Add that closes a socket finds
\* the new record, which holds the socket of the handler that adds, under the id.
C23_CloseAfterInstall ==
    [][\A s \in Sess :
          (pc[s] \in {"dispatch", "add"} /\ cmd(s) = CONNECT /\ Steps(s) /\ closed' # closed)
          => LET x == ConnectId(param(s))
             IN  x \in DOMAIN connections /\ connections[x].conn = s]_vars

\* C23, amended: Add closes the old socket first and installs the new record
\* next, both under the exclusive lock; no Lookup runs between the two, so no
\* Lookup returns a record whose socket an Add in progress has closed.
C23_ReplacementUnderLock ==
    [][\A s \in Sess :
          /\ (pc[s] = "dispatch" /\ pc'[s] = "add")
             => LET x == ConnectId(param(s))
                IN  /\ connections' = connections
                    /\ closed' = IF x \in DOMAIN connections
                                 THEN closed \cup {connections[x].conn}
                                 ELSE closed
          /\ (pc[s] = "add" /\ Steps(s))
             => LET x == ConnectId(param(s))
                IN  /\ closed' = closed
                    /\ x \in DOMAIN connections'
                    /\ connections'[x].conn = s
                    /\ \A y \in DOMAIN connections \ {x} : connections'[y] = connections[y]
          /\ (Locked /\ pc[s] = "dispatch" /\ Steps(s))
             => /\ to'[s] = to[s]
                /\ cmd(s) # INFO
                /\ cmd(s) = TO => param(s) = <<>>]_vars

\* C23's case: an Add has closed the socket of the record it replaces and has
\* not yet installed the new one, while another handler is about to look the
\* id up
C23_LookupWaitsForAdd ==
    \E s \in Sess, r \in Sess :
        /\ pc[s] = "add"
        /\ pc[r] = "dispatch"
        /\ cmd(r) = INFO
        /\ param(r) = ConnectId(param(s))
        /\ param(r) \in DOMAIN connections
        /\ connections[param(r)].conn # s
        /\ connections[param(r)].conn \in closed

\* the handler of s is inside a registry operation that writes: List.Add,
\* List.Update or List.SetStatus
InMutation(s) == pc[s] \in {"add", "update", "setStatus", "statusNow"}

\* C24: the registry operations that mutate state hold the lock exclusively:
\* no two handlers are inside a mutating registry operation at the same time.
C24_MutationsExclusive ==
    \A s \in Sess, r \in Sess : (InMutation(s) /\ InMutation(r)) => s = r

\* handler r is inside ConnInfo.SetStatus on the record with serial n: the
\* status is written, the updated field is not yet
HalfSetStatus(r, n) ==
    /\ pc[r] \in {"setStatus", "statusNow"}
    /\ id[r] \in DOMAIN connections
    /\ connections[id[r]].ser = n

\* C25: an observer sees each record entirely before or entirely after a
\* registry operation: the handler that builds an OK INFO reply never reads a
\* record whose status a SetStatus has written while its updated field is
\* still the one from before that SetStatus.
C25_InfoSeesWholeSetStatus ==
    [][\A s \in Sess :
          (pc[s] = "info" /\ Steps(s)) => \A r \in Sess : ~HalfSetStatus(r, to[s].ser)]_vars

\* C26: after k temporary accept errors in a row the retry delay is
\* min(5 ms * 2^(k-1), 1 s); an accept sets the delay to 0, so that the next
\* temporary error waits 5 ms; any other accept error closes the listener and
\* ends the loop.
C26_AcceptBackoff ==
    [][/\ errs' = errs + 1
          => LET d == 5 * 2 ^ (errs' - 1)
             IN  /\ tempDelay' = IF d < 1000 THEN d ELSE 1000
                 /\ slept' = tempDelay'
                 /\ serving' = "accept" /\ l' = "open"
       /\ (\E s \in Sess : pc[s] = "listen" /\ pc'[s] = "top")
          => tempDelay' = 0 /\ errs' = 0 /\ serving' = "accept"
       /\ (errs = 0 /\ errs' = 1) => slept' = 5
       /\ (serving = "accept" /\ errs' = errs /\ pc' = pc /\ serving' # serving)
          => l' = "closed" /\ serving' = "returned"
       /\ serving = "returned" => UNCHANGED serveVars]_vars

\* C26's case: the delay has reached one second after an accept had reset it
C26_DelayAtMax ==
    /\ tempDelay = 1000
    /\ slept = 1000
    /\ errs >= 9
    /\ \E s \in Sess : pc[s] = "top"

\* C27: the cap on a line's length is exact: a line of 256 bytes, its LF
\* counted, is dispatched and answered like any shorter line, and a line of
\* 257 bytes is discarded without a reply.
C27_LineCapExact ==
    [][\A s \in Sess :
          /\ (pc[s] \in {"touch", "update"} /\ Steps(s) /\ pc'[s] # "update")
             => /\ Len(message[s]) <= 256 => pc'[s] = "dispatch" /\ message'[s] = message[s]
                /\ Len(message[s]) >= 257 => pc'[s] = "top" /\ out' = out /\ reply' = reply
          /\ (pc[s] = "dispatch" /\ Steps(s) /\ HasPrefix(message[s], <<80,73,78,71,32>>))
             => \/ out' = [out EXCEPT ![s] = Append(@, <<79,75,32>> \o message[s])]
                \/ out' = out /\ pc'[s] = "defer" /\ s \in closed \cup gone]_vars

\* C27's case: a line of 256 bytes has been answered, and a line of 257 bytes
\* has been read and is about to be discarded
C27_MaxLineAnswered ==
    \E s \in Sess :
        /\ \E i \in 1..Len(out[s]) : Len(out[s][i]) = 256 + 3
        /\ Len(message[s]) = 257
        /\ pc[s] = "touch"

\* C28: the eviction that follows a failed write to a target's socket removes
\* only the record that holds the socket that failed: it removes no record,
\* and closes no socket, of a session that registered the id after the lookup.
C28_EvictsOnlyFailedSocket ==
    [][\A s \in Sess :
          (pc[s] \in {"evictInfo", "evictTo"} /\ Steps(s))
          => /\ \A x \in DOMAIN connections \ DOMAIN connections' :
                    connections[x].conn = to[s].conn
             /\ closed' \ closed \subseteq {to[s].conn}]_vars

\* C29: the status and the updated time of a record change only through lines
\* read from the socket the record holds: the handler that writes them is the
\* handler of that socket, never a session displaced by the record's owner.
C29_OnlyOwnerWritesRecord ==
    [][\A x \in DOMAIN connections :
          (/\ x \in DOMAIN connections'
           /\ connections'[x].ser = connections[x].ser
           /\ \/ connections'[x].status # connections[x].status
              \/ connections'[x].updated # connections[x].updated)
          => \A s \in Sess : Steps(s) => s = connections[x].conn]_vars

\* C30: every FROM line written to a target's socket carries a sender id that
\* is not empty and under which the sender's socket is registered at the time
\* of the relay: a session that has not completed CONNECT delivers no FROM line.
C30_FromCarriesSenderId ==
    [][\A s \in Sess :
          (pc[s] = "from" /\ Steps(s) /\ out' # out)
          => /\ id[s] # <<>>
             /\ id[s] \in DOMAIN connections
             /\ connections[id[s]].conn = s]_vars

\* C31: for every int32 length prefix L the relay copies L - 4 body bytes to
\* the target when L >= 4 and none otherwise: io.CopyN is given L - 4 when
\* L >= 4 and a count that is not positive when L < 4, and a step that copies
\* body bytes belongs to a frame of L >= 4 and stays within its L - 4 bytes.
C31_CopiesLengthMinus4 ==
    [][\A s \in Sess :
          /\ (pc[s] = "wdl" /\ pc'[s] = "copy")
             => IF length[s] >= 4
                THEN remain'[s] = length[s] - 4
                ELSE remain'[s] <= 0
          /\ (pc[s] = "copy" /\ pc'[s] = "copy" /\ remain'[s] < remain[s])
             => length[s] >= 4 /\ remain[s] <= length[s] - 4]_vars

====
